---- MODULE Spec2Model ----
(***************************************************************************)
(* ElegooPrinterClient (elegoo_sdcp/elegoo_printer.py): the SDCP session   *)
(* client.  The model covers the websocket handle and the background       *)
(* receive loops started by connect_printer, the command path              *)
(* (_send_printer_cmd and the facade methods), and the message router      *)
(* (_parse_response and its handlers) that writes Device State.            *)
(***************************************************************************)
EXTENDS Integers, Sequences, FiniteSets, TLC

VARIABLES
    printer_websocket,  \* self.printer_websocket: None, or the WebSocketApp stored by connect_printer
    printer,            \* self.printer: the identity commands are addressed to
    printer_data,       \* self.printer_data: status, attributes, print_history
    apps,               \* number of WebSocketApp objects created so far (one per connect_printer call)
    loop,               \* loop[i]: state of the run_forever thread of the i-th WebSocketApp
    pc,                 \* position of the connect_printer coroutine
    connect_ret,        \* what the most recent connect_printer call has returned
    last,               \* outcome of the most recently completed operation
    arrived,            \* per category, what the most recently arrived envelope carried
    task_pc,            \* position of the get_printer_current_task coroutine
    _mjpeg_url,         \* ElegooMjpegCamera._mjpeg_url
    last_success_url    \* the URL stream_source returned in its most recent call that found SUCCESS

vars ==
    <<printer_websocket, printer, printer_data, apps, loop, pc, connect_ret, last, arrived,
      task_pc, _mjpeg_url, last_success_url>>

camera_vars == <<_mjpeg_url, last_success_url>>

session_vars == <<printer_websocket, apps, loop, pc, connect_ret, task_pc, camera_vars>>

(***************************************************************************)
(* Bounds of the model.                                                    *)
(***************************************************************************)
\* connect_printer calls in one run (each creates a WebSocketApp and a thread)
MaxConnects == 2
\* longest HistoryDetailList an inbound response envelope carries
MaxHist == 2

\* the task ids that appear in the entries of inbound history lists
TaskIds == {1, 2}

None == 0

(***************************************************************************)
(* Inbound frames.  A frame is the text handed to _parse_response; the     *)
(* record describes the JSON value json.loads makes of it (or that it      *)
(* makes none).  Every JSON member is a tag ("absent", "number", "object", *)
(* "list", "string") and, beside it, the value when the tag gives it one.  *)
(***************************************************************************)
\* one element of a HistoryDetailList: a JSON object, or a JSON number
HistoryEntries ==
    {[et |-> "object", TaskId |-> n] : n \in TaskIds} \cup {[et |-> "number", TaskId |-> 0]}

\* lists of at most n elements of S
SeqUpTo(S, n) == UNION {[1..k -> S] : k \in 0..n}

\* topic strings of the frames that carry no payload; a string is the sequence of
\* its characters, "/" and the words between the slashes
Topics ==
    {<<"sdcp", "/", c, "/", "id">> : c \in {"notice", "error", "other"}}
    \cup {<<>>, <<"status">>, <<"sdcp", "/">>, <<"/", "notice">>}

NoPayload ==
    [st |-> "absent", CurrentStatus |-> 0, TaskId |-> 0,
     at |-> "absent", Name |-> 0,
     dt |-> "absent", ddt |-> "absent", ht |-> "absent", HistoryDetailList |-> <<>>]

\* a frame that is not JSON text
NotJsonFrame ==
    [json |-> FALSE, top |-> "none", tt |-> "absent", Topic |-> <<>>, body |-> NoPayload]

TopicFrame(t) ==
    [json |-> TRUE, top |-> "object", tt |-> "string", Topic |-> t, body |-> NoPayload]

StatusTopic == <<"sdcp", "/", "status", "/", "id">>
AttributesTopic == <<"sdcp", "/", "attributes", "/", "id">>
ResponseTopic == <<"sdcp", "/", "response", "/", "id">>

\* status envelopes: a Status object the model parser accepts, or a member it rejects
StatusFrames ==
    {[TopicFrame(StatusTopic) EXCEPT !.body =
        [NoPayload EXCEPT !.st = "object", !.CurrentStatus = c, !.TaskId = t]] :
            c \in 0..1, t \in 0..1}
    \cup {[TopicFrame(StatusTopic) EXCEPT !.body = [NoPayload EXCEPT !.st = "number"]]}

AttributesFrames ==
    {[TopicFrame(AttributesTopic) EXCEPT !.body =
        [NoPayload EXCEPT !.at = "object", !.Name = n]] : n \in 0..1}
    \cup {[TopicFrame(AttributesTopic) EXCEPT !.body = [NoPayload EXCEPT !.at = "number"]]}

\* response envelopes: Data, Data.Data and Data.Data.HistoryDetailList each absent,
\* of the wrong JSON type, or well-formed
ResponseFrames ==
    {[TopicFrame(ResponseTopic) EXCEPT !.body = [NoPayload EXCEPT !.dt = d]] :
        d \in {"absent", "number"}}
    \cup {[TopicFrame(ResponseTopic) EXCEPT !.body =
            [NoPayload EXCEPT !.dt = "object", !.ddt = d]] : d \in {"absent", "number"}}
    \cup {[TopicFrame(ResponseTopic) EXCEPT !.body =
            [NoPayload EXCEPT !.dt = "object", !.ddt = "object", !.ht = h]] :
                h \in {"absent", "number"}}
    \cup {[TopicFrame(ResponseTopic) EXCEPT !.body =
            [NoPayload EXCEPT !.dt = "object", !.ddt = "object", !.ht = "list",
                              !.HistoryDetailList = l]] :
                l \in SeqUpTo(HistoryEntries, MaxHist)}

Frames ==
    {NotJsonFrame}
    \cup {[NotJsonFrame EXCEPT !.json = TRUE, !.top = "array"]}
    \cup {[TopicFrame(<<>>) EXCEPT !.tt = t] : t \in {"absent", "number"}}
    \cup {TopicFrame(t) : t \in Topics}
    \cup StatusFrames \cup AttributesFrames \cup ResponseFrames

(***************************************************************************)
(* Device State and the model parsers.                                     *)
(***************************************************************************)
\* PrinterStatus.from_json: the Status member of the envelope as a PrinterStatus
PrinterStatus_from_json(b) ==
    [ok |-> b.st = "object",
     value |-> [current_status |-> b.CurrentStatus, print_info |-> [task_id |-> b.TaskId]]]

\* PrinterAttributes.from_json: the Attributes member of the envelope
PrinterAttributes_from_json(b) ==
    [ok |-> b.at = "object", value |-> [name |-> b.Name]]

\* PrintHistoryDetail(history_data): one element of the list as a record
PrintHistoryDetail(e) ==
    [ok |-> e.et = "object", value |-> [task_id |-> e.TaskId]]

\* PrinterData(): what __init__ stores before any envelope arrived
PrinterData ==
    [status |-> [current_status |-> 0, print_info |-> [task_id |-> 0]],
     attributes |-> [name |-> 0],
     print_history |-> <<>>]

(***************************************************************************)
(* The message router.  Each handler yields the exception that leaves it   *)
(* ("none" when it returns) and printer_data as it leaves it.              *)
(***************************************************************************)
RECURSIVE SplitFrom(_, _)
SplitFrom(s, seg) ==
    IF s = <<>> THEN <<seg>>
    ELSE IF Head(s) = "/" THEN <<seg>> \o SplitFrom(Tail(s), <<>>)
    ELSE SplitFrom(Tail(s), Append(seg, Head(s)))

\* str.split("/")
Split(s) == SplitFrom(s, <<>>)

Returned(pd) == [exc |-> "none", pd |-> pd]
Raised(e, pd) == [exc |-> e, pd |-> pd]

\* _status_handler if it rebuilt printer_data around the new status
_status_handler_rebuilds(b, pd) ==
    LET printer_status == PrinterStatus_from_json(b) IN
    IF printer_status.ok
    THEN Returned([PrinterData EXCEPT !.status = printer_status.value])
    ELSE Raised("ParseError", pd)

_status_handler(b, pd) ==
    LET printer_status == PrinterStatus_from_json(b) IN
    IF printer_status.ok
    THEN Returned([pd EXCEPT !.status = printer_status.value])
    ELSE Raised("ParseError", pd)

_attributes_handler(b, pd) ==
    LET printer_attributes == PrinterAttributes_from_json(b) IN
    IF printer_attributes.ok
    THEN Returned([pd EXCEPT !.attributes = printer_attributes.value])
    ELSE Raised("ParseError", pd)

PrintHistoryDetailList(history_data_list) ==
    [k \in 1..Len(history_data_list) |-> PrintHistoryDetail(history_data_list[k]).value]

\* _print_history_handler if it read the member with a default of [] and
\* assigned whatever it got
_print_history_handler_defaults(b, pd) ==
    LET history_data_list == b.HistoryDetailList IN
    IF b.ht = "number" THEN Raised("TypeError", pd)
    ELSE IF \E k \in 1..Len(history_data_list) : ~PrintHistoryDetail(history_data_list[k]).ok
    THEN Raised("ParseError", pd)
    ELSE Returned([pd EXCEPT !.print_history = PrintHistoryDetailList(history_data_list)])

\* data_data is Data.Data of the envelope (an object); the list is replaced when
\* the member is truthy
_print_history_handler(b, pd) ==
    LET history_data_list == b.HistoryDetailList IN
    IF b.ht = "absent" THEN Returned(pd)
    ELSE IF b.ht = "number" THEN Raised("TypeError", pd)
    ELSE IF history_data_list = <<>> THEN Returned(pd)
    ELSE IF \E k \in 1..Len(history_data_list) : ~PrintHistoryDetail(history_data_list[k]).ok
    THEN Raised("ParseError", pd)
    ELSE Returned([pd EXCEPT !.print_history = PrintHistoryDetailList(history_data_list)])

\* data.get("Data", {}).get("Data", {}), then _print_history_handler
_response_handler(b, pd) ==
    IF b.dt = "absent" THEN Returned(pd)
    ELSE IF b.dt # "object" THEN Raised("AttributeError", pd)
    ELSE IF b.ddt = "absent" THEN Returned(pd)
    ELSE IF b.ddt # "object" THEN Raised("AttributeError", pd)
    ELSE _print_history_handler(b, pd)

\* lines 315-338: the body of the try block once json.loads has returned
Dispatch(f, pd) ==
    IF f.top # "object" THEN Raised("AttributeError", pd)        \* data.get
    ELSE IF f.tt = "absent" \/ (f.tt = "string" /\ f.Topic = <<>>) THEN Returned(pd)
    ELSE IF f.tt # "string" THEN Raised("AttributeError", pd)    \* topic.split
    ELSE IF Len(Split(f.Topic)) < 2 THEN Raised("IndexError", pd)
    ELSE LET category == Split(f.Topic)[2] IN
         CASE category = <<"response">> -> _response_handler(f.body, pd)
           [] category = <<"status">> -> _status_handler(f.body, pd)
           [] category = <<"attributes">> -> _attributes_handler(f.body, pd)
           [] OTHER -> Returned(pd)

\* _parse_response without its except clause
_parse_response_uncaught(f, pd) ==
    IF ~f.json THEN Raised("JSONDecodeError", pd) ELSE Dispatch(f, pd)

\* json.loads raises json.JSONDecodeError on text that is not JSON; the except
\* clause logs it and returns
_parse_response(f, pd) ==
    IF ~f.json THEN Returned(pd) ELSE Dispatch(f, pd)

(***************************************************************************)
(* The command path.                                                       *)
(***************************************************************************)
\* Printer(): the identity __init__ stores
Printer == [id |-> 0, connection |-> 0, ip_address |-> "", name |-> ""]

NoData == [dt |-> "empty", Enable |-> 0, Id |-> <<>>]

NoEnvelope ==
    [Id |-> 0, Cmd |-> -1, Data |-> NoData, MainboardID |-> 0, From |-> -1, Topic |-> <<>>]

\* the payload with the device id and the session token in each other's place
Payload_swapped(cmd, data, pr) ==
    [Id |-> pr.id, Cmd |-> cmd, Data |-> data, MainboardID |-> pr.connection,
     From |-> 0, Topic |-> <<"sdcp", "/", "request", "/", pr.connection>>]

\* the payload _send_printer_cmd builds (RequestID and TimeStamp, fresh in every
\* call, are left out)
Payload(cmd, data, pr) ==
    [Id |-> pr.connection, Cmd |-> cmd, Data |-> data, MainboardID |-> pr.id,
     From |-> 0, Topic |-> <<"sdcp", "/", "request", "/", pr.id>>]

\* what the transport does with one send: nothing wrong, a websocket exception,
\* or an OSError
Faults == {"none", "websocket", "os"}

\* _send_printer_cmd if it only logged the warning when there is no handle
_send_printer_cmd_warns(cmd, data, pw, fault) ==
    IF pw # None
    THEN [exc |-> CASE fault = "websocket" -> "ElegooPrinterClientWebsocketError"
                    [] fault = "os" -> "OSError"
                    [] OTHER -> "none",
          via |-> pw, env |-> Payload(cmd, data, printer)]
    ELSE [exc |-> "none", via |-> None, env |-> NoEnvelope]

\* _send_printer_cmd if its OSError clause logged without the raise
_send_printer_cmd_swallows(cmd, data, pw, fault) ==
    IF pw # None
    THEN [exc |-> CASE fault = "websocket" -> "ElegooPrinterClientWebsocketError"
                    [] OTHER -> "none",
          via |-> pw, env |-> Payload(cmd, data, printer)]
    ELSE [exc |-> "ElegooPrinterClientWebsocketConnectionError",
          via |-> None, env |-> NoEnvelope]

\* _send_printer_cmd: exc is the exception that leaves it, via the handle whose
\* send was called (None when none was), env the payload handed to it
_send_printer_cmd(cmd, data, pw, fault) ==
    IF pw # None
    THEN [exc |-> CASE fault = "websocket" -> "ElegooPrinterClientWebsocketError"
                    [] fault = "os" -> "OSError"
                    [] OTHER -> "none",
          via |-> pw, env |-> Payload(cmd, data, printer)]
    ELSE [exc |-> "ElegooPrinterClientWebsocketConnectionError",
          via |-> None, env |-> NoEnvelope]

\* the facade methods: the exception handlers of get_printer_status and
\* get_printer_attributes log and re-raise
get_printer_status(pw, fault) == _send_printer_cmd(0, NoData, pw, fault)

get_printer_attributes(pw, fault) == _send_printer_cmd(1, NoData, pw, fault)

set_printer_video_stream(toggle, pw, fault) ==
    _send_printer_cmd(386, [NoData EXCEPT !.dt = "Enable", !.Enable = IF toggle THEN 1 ELSE 0],
                      pw, fault)

get_printer_historical_tasks(pw, fault) == _send_printer_cmd(320, NoData, pw, fault)

get_printer_task_detail(id_list, pw, fault) ==
    _send_printer_cmd(321, [NoData EXCEPT !.dt = "Id", !.Id = id_list], pw, fault)

\* the id lists callers pass to get_printer_task_detail
IdLists == {<<1>>, <<1, 2>>}

(***************************************************************************)
(* State.                                                                  *)
(***************************************************************************)
\* the run_forever thread of a WebSocketApp is alive while it connects or is connected
Alive == {"connecting", "connected"}

\* what sock.recvfrom gave: no datagram (k says why), or, with k = "data", the
\* datagram and its sender
NoDatagram(k) ==
    [kind |-> k, sender |-> "", utf8 |-> TRUE, identity |-> FALSE,
     Id |-> 0, MainboardID |-> 0, MainboardIP |-> "", Name |-> ""]

\* what a call of discover_printer did on the network: what the enumeration of
\* the interfaces gave, the bind, the addresses probed and those whose sendto
\* went through, and what recvfrom gave
NoUdp ==
    [interfaces |-> "none", bind |-> "none", probes |-> {}, delivered |-> {},
     recv |-> "none", datagram |-> NoDatagram("none")]

\* what get_printer_video returned to a stream_source call, and the proxy option
\* the call found
NoVideo == [status |-> "None", video_url |-> "", proxy_enabled |-> FALSE]

NoOp ==
    [op |-> "none", what |-> "", exc |-> "none", via |-> None, env |-> NoEnvelope,
     ret |-> <<>>, udp |-> NoUdp, video |-> NoVideo]

Init ==
    /\ printer_websocket = None
    /\ printer = Printer
    /\ printer_data = PrinterData
    /\ apps = 0
    /\ loop = [i \in 1..MaxConnects |-> "unused"]
    /\ pc = "idle"
    /\ connect_ret = "none"
    /\ last = NoOp
    /\ arrived = PrinterData
    /\ task_pc = "idle"
    /\ _mjpeg_url = ""
    /\ last_success_url = ""

(***************************************************************************)
(* connect_printer.                                                        *)
(***************************************************************************)
\* on_close if it left the handle alone
on_close_keeps(pw) == pw

\* on_close and on_error: what they assign to self.printer_websocket
on_close(pw) == None

on_error(pw) == None

\* the timed-out poll if it left the handle alone
connect_timeout_keeps(pw) == pw

\* lines 308-310: what the timed-out poll assigns to self.printer_websocket
connect_timeout(pw) == None

\* lines 263-298: the WebSocketApp is created and stored, its thread started
ConnectStart ==
    /\ pc = "idle"
    /\ apps < MaxConnects
    /\ apps' = apps + 1
    /\ printer_websocket' = apps + 1
    /\ loop' = [loop EXCEPT ![apps + 1] = "connecting"]
    /\ pc' = "poll"
    /\ connect_ret' = "pending"
    /\ UNCHANGED <<printer, printer_data, last, arrived, task_pc, camera_vars>>

\* lines 302-304: the poll sees ws.sock.connected and suspends in asyncio.sleep(2)
ConnectObserved ==
    /\ pc = "poll"
    /\ loop[apps] = "connected"
    /\ pc' = "sleep"
    /\ UNCHANGED <<printer_websocket, printer, printer_data, apps, loop, connect_ret, last, arrived, task_pc, camera_vars>>

\* lines 305-306: the sleep is over, connect_printer returns True
ConnectTrue ==
    /\ pc = "sleep"
    /\ pc' = "idle"
    /\ connect_ret' = "True"
    /\ last' = [NoOp EXCEPT !.op = "connect", !.what = "True"]
    /\ UNCHANGED <<printer_websocket, printer, printer_data, apps, loop, arrived, task_pc, camera_vars>>

\* the timeout path if it first joined the run_forever thread
ConnectTimeout_joins ==
    /\ pc = "poll"
    /\ loop[apps] = "dead"
    /\ printer_websocket' = connect_timeout(printer_websocket)
    /\ pc' = "idle"
    /\ connect_ret' = "False"
    /\ last' = [NoOp EXCEPT !.op = "connect", !.what = "False"]
    /\ UNCHANGED <<printer, printer_data, apps, loop, arrived, task_pc, camera_vars>>

\* lines 308-310: the deadline passed without the socket seen connected
ConnectTimeout ==
    /\ pc = "poll"
    /\ printer_websocket' = connect_timeout(printer_websocket)
    /\ pc' = "idle"
    /\ connect_ret' = "False"
    /\ last' = [NoOp EXCEPT !.op = "connect", !.what = "False"]
    /\ UNCHANGED <<printer, printer_data, apps, loop, arrived, task_pc, camera_vars>>

(***************************************************************************)
(* The run_forever thread of the i-th WebSocketApp (reconnect=1).          *)
(***************************************************************************)
\* the socket of app i connects
SockConnected(i) ==
    /\ loop[i] = "connecting"
    /\ loop' = [loop EXCEPT ![i] = "connected"]
    /\ UNCHANGED <<printer_websocket, printer, printer_data, apps, pc, connect_ret, last, arrived, task_pc, camera_vars>>

\* the thread calls on_error (a failed connect, a broken socket) and retries
OnError(i) ==
    /\ loop[i] \in Alive
    /\ printer_websocket' = on_error(printer_websocket)
    /\ loop' = [loop EXCEPT ![i] = "connecting"]
    /\ UNCHANGED <<printer, printer_data, apps, pc, connect_ret, last, arrived, task_pc, camera_vars>>

\* the thread calls on_close, then reconnects or ends
OnClose(i) ==
    /\ loop[i] \in Alive
    /\ printer_websocket' = on_close(printer_websocket)
    /\ \E s \in {"connecting", "dead"} : loop' = [loop EXCEPT ![i] = s]
    /\ UNCHANGED <<printer, printer_data, apps, pc, connect_ret, last, arrived, task_pc, camera_vars>>

(***************************************************************************)
(* Inbound frames reach the router.                                        *)
(***************************************************************************)
\* the kind of frame an operation record remembers
FrameKind(f) ==
    CASE ~f.json -> "notjson"
      [] f \in StatusFrames -> "status"
      [] f \in AttributesFrames -> "attributes"
      [] f \in ResponseFrames -> "response"
      [] OTHER -> "other"

\* what the most recent well-formed envelope of each category carried
Arrive(f, a) ==
    CASE f \in StatusFrames /\ f.body.st = "object" ->
            [a EXCEPT !.status = [current_status |-> f.body.CurrentStatus,
                                  print_info |-> [task_id |-> f.body.TaskId]]]
      [] f \in AttributesFrames /\ f.body.at = "object" ->
            [a EXCEPT !.attributes = [name |-> f.body.Name]]
      [] /\ f \in ResponseFrames
         /\ f.body.ht = "list"
         /\ \A k \in 1..Len(f.body.HistoryDetailList) :
                f.body.HistoryDetailList[k].et = "object" ->
            [a EXCEPT !.print_history =
                [k \in 1..Len(f.body.HistoryDetailList) |->
                    [task_id |-> f.body.HistoryDetailList[k].TaskId]]]
      [] OTHER -> a

\* one call of _parse_response(f)
Router(f) ==
    LET r == _parse_response(f, printer_data) IN
    /\ printer_data' = r.pd
    /\ last' = [NoOp EXCEPT !.op = "recv", !.what = FrameKind(f), !.exc = r.exc]
    /\ arrived' = Arrive(f, arrived)

\* _parse_response called on its own
ParseResponseCall(f) ==
    /\ Router(f)
    /\ UNCHANGED <<printer, session_vars>>

\* ws_msg_handler, the on_message callback of app i: an exception that leaves
\* the callback is handed by the WebSocketApp to on_error, and the loop goes on
ws_msg_handler(i, f) ==
    /\ loop[i] = "connected"
    /\ Router(f)
    /\ printer_websocket' =
            IF _parse_response(f, printer_data).exc # "none"
            THEN on_error(printer_websocket)
            ELSE printer_websocket
    /\ UNCHANGED <<printer, apps, loop, pc, connect_ret, task_pc, camera_vars>>

\* the frames the background loops deliver in the session specification
SessionFrames ==
    {NotJsonFrame,
     [NotJsonFrame EXCEPT !.json = TRUE, !.top = "array"],
     [TopicFrame(StatusTopic) EXCEPT !.body =
        [NoPayload EXCEPT !.st = "object", !.CurrentStatus = 1, !.TaskId = 1]],
     [TopicFrame(ResponseTopic) EXCEPT !.body =
        [NoPayload EXCEPT !.dt = "object", !.ddt = "object", !.ht = "list",
                          !.HistoryDetailList = <<[et |-> "object", TaskId |-> 1]>>]]}

(***************************************************************************)
(* The facade commands, called while no coroutine runs synchronously.      *)
(***************************************************************************)
\* a command that drops the device state when the send raises
Command_resets(name, r) ==
    /\ pc \in {"idle", "sleep"}
    /\ last' = [NoOp EXCEPT !.op = "send", !.what = name, !.exc = r.exc, !.via = r.via,
                             !.env = r.env]
    /\ printer_data' = IF r.exc # "none" THEN PrinterData ELSE printer_data
    /\ UNCHANGED <<printer_websocket, printer, apps, loop, pc, connect_ret, arrived, task_pc, camera_vars>>

\* one call of a facade method: r is what _send_printer_cmd did in it
Command(name, r) ==
    /\ pc \in {"idle", "sleep"}
    /\ last' = [NoOp EXCEPT !.op = "send", !.what = name, !.exc = r.exc, !.via = r.via,
                             !.env = r.env]
    /\ UNCHANGED <<printer_websocket, printer, printer_data, apps, loop, pc, connect_ret, arrived, task_pc, camera_vars>>

\* a send on a socket that is not connected cannot go well
Possible(fault) ==
    fault = "none" /\ printer_websocket # None => loop[printer_websocket] = "connected"

GetPrinterStatus ==
    \E fault \in Faults :
        Possible(fault) /\ Command("get_printer_status", get_printer_status(printer_websocket, fault))

GetPrinterAttributes ==
    \E fault \in Faults :
        /\ Possible(fault)
        /\ Command("get_printer_attributes", get_printer_attributes(printer_websocket, fault))

SetPrinterVideoStream ==
    \E fault \in Faults, toggle \in BOOLEAN :
        /\ Possible(fault)
        /\ Command("set_printer_video_stream",
                   set_printer_video_stream(toggle, printer_websocket, fault))

GetPrinterHistoricalTasks ==
    \E fault \in Faults :
        /\ Possible(fault)
        /\ Command("get_printer_historical_tasks",
                   get_printer_historical_tasks(printer_websocket, fault))

GetPrinterTaskDetail ==
    \E fault \in Faults, id_list \in IdLists :
        /\ Possible(fault)
        /\ Command("get_printer_task_detail",
                   get_printer_task_detail(id_list, printer_websocket, fault))

SendCommand ==
    \/ GetPrinterStatus
    \/ GetPrinterAttributes
    \/ SetPrinterVideoStream
    \/ GetPrinterHistoricalTasks
    \/ GetPrinterTaskDetail

(***************************************************************************)
(* get_printer_current_task, a coroutine: it runs without a break up to    *)
(* its asyncio.sleep(2) and resumes when the event loop is free again.     *)
(***************************************************************************)
\* get_printer_current_task if it asked for the detail whatever the task id
get_printer_current_task_always(pd, pw, fault) ==
    LET r == get_printer_task_detail(<<pd.status.print_info.task_id>>, pw, fault)
    IN  [next |-> IF r.exc # "none" THEN "raise" ELSE "suspend",
         exc |-> r.exc, via |-> r.via, env |-> r.env]

\* lines 87-90 and 93: up to the sleep; next is "empty" where it returns [],
\* "raise" where the exception of the send leaves it, "suspend" where it
\* reaches the sleep
get_printer_current_task(pd, pw, fault) ==
    IF pd.status.print_info.task_id # 0
    THEN LET r == get_printer_task_detail(<<pd.status.print_info.task_id>>, pw, fault)
         IN  [next |-> IF r.exc # "none" THEN "raise" ELSE "suspend",
              exc |-> r.exc, via |-> r.via, env |-> r.env]
    ELSE [next |-> "empty", exc |-> "none", via |-> None, env |-> NoEnvelope]

\* a call of get_printer_current_task, up to its return, raise or sleep
TaskStart ==
    \E fault \in Faults :
        LET r == get_printer_current_task(printer_data, printer_websocket, fault) IN
        /\ pc \in {"idle", "sleep"}
        /\ task_pc = "idle"
        /\ Possible(fault)
        /\ last' = [NoOp EXCEPT !.op = "task", !.what = r.next, !.exc = r.exc,
                                 !.via = r.via, !.env = r.env]
        /\ task_pc' = IF r.next = "suspend" THEN "sleep" ELSE "idle"
        /\ UNCHANGED <<printer_websocket, printer, printer_data, apps, loop, pc, connect_ret,
                       arrived, camera_vars>>

\* line 91: the sleep is over, it returns self.printer_data.print_history
TaskResume ==
    /\ pc \in {"idle", "sleep"}
    /\ task_pc = "sleep"
    /\ task_pc' = "idle"
    /\ last' = [NoOp EXCEPT !.op = "task", !.what = "history",
                             !.ret = printer_data.print_history]
    /\ UNCHANGED <<printer_websocket, printer, printer_data, apps, loop, pc, connect_ret,
                   arrived, camera_vars>>

(***************************************************************************)
(* discover_printer.  Its inputs are what the network does during the      *)
(* call: the interface enumeration, the bind, each sendto, and the first   *)
(* datagram received (or none).                                            *)
(***************************************************************************)
LimitedBroadcast == "255.255.255.255"

\* IPv4 broadcast addresses netifaces may report
BroadcastAddrs == {"192.0.2.255", "198.51.100.255"}

\* addresses of hosts on the network
Hosts == {"192.0.2.50", "192.0.2.99"}

\* netifaces raises, or reports a set of broadcast addresses (possibly none)
Enumerations ==
    {[raises |-> TRUE, addrs |-> {}]}
    \cup {[raises |-> FALSE, addrs |-> A] : A \in SUBSET BroadcastAddrs}

\* what sock.recvfrom does: TimeoutError, another OSError, or a datagram from a
\* sender; the datagram is UTF-8 or not, and its text is an identity payload
\* (with the address and ids the device reports) or not
Replies ==
    {NoDatagram("timeout"), NoDatagram("oserror")}
    \cup {[NoDatagram("data") EXCEPT !.sender = a, !.utf8 = u] : a \in Hosts, u \in BOOLEAN}
    \cup {[NoDatagram("data") EXCEPT !.sender = a, !.identity = TRUE, !.Id = c,
                                     !.MainboardID = m, !.MainboardIP = ip, !.Name = "P1"] :
            a \in Hosts, c \in {1, 2}, m \in {1, 2}, ip \in Hosts}

\* Printer(printer_info, centauri_carbon): the identity the payload text states
PrinterOf(d) ==
    [ok |-> d.identity,
     value |-> [id |-> d.MainboardID, connection |-> d.Id,
                ip_address |-> d.MainboardIP, name |-> d.Name]]

\* what the enumeration of the interfaces came to
Interfaces(enum) ==
    IF enum.raises THEN "raised" ELSE IF enum.addrs = {} THEN "empty" ELSE "some"

\* _get_broadcast_addresses: the fallback is taken in the except clause only
_get_broadcast_addresses(enum) ==
    IF enum.raises THEN {LimitedBroadcast} ELSE enum.addrs

\* _save_discovered_printer without its UnicodeDecodeError clause
_save_discovered_printer_undecoded(d) ==
    IF ~d.utf8 THEN [found |-> FALSE, printer |-> Printer, exc |-> "UnicodeDecodeError"]
    ELSE IF ~PrinterOf(d).ok THEN [found |-> FALSE, printer |-> Printer, exc |-> "none"]
    ELSE [found |-> TRUE, printer |-> PrinterOf(d).value, exc |-> "none"]

\* _save_discovered_printer: found is FALSE where it returns None; both except
\* clauses log and fall through to return None
_save_discovered_printer(d) ==
    IF ~d.utf8 THEN [found |-> FALSE, printer |-> Printer, exc |-> "none"]
    ELSE IF ~PrinterOf(d).ok THEN [found |-> FALSE, printer |-> Printer, exc |-> "none"]
    ELSE [found |-> TRUE, printer |-> PrinterOf(d).value, exc |-> "none"]

NotFound(pr, udp) == [ret |-> "None", exc |-> "none", printer |-> pr, udp |-> udp]

\* lines 202-232 if self.printer were assigned whatever _save_discovered_printer
\* found, and None after a receive that failed
Exchange_assigns(broadcast_addresses, fails, reply, pr) ==
    LET udp == [NoUdp EXCEPT !.bind = "ok", !.probes = broadcast_addresses,
                             !.delivered = broadcast_addresses \ fails,
                             !.recv = reply.kind, !.datagram = reply]
        saved == _save_discovered_printer(reply)
    IN  IF reply.kind # "data" THEN NotFound(Printer, udp)
        ELSE IF saved.exc # "none"
        THEN [ret |-> "raise", exc |-> saved.exc, printer |-> pr, udp |-> udp]
        ELSE IF saved.found
        THEN [ret |-> "Printer", exc |-> "none", printer |-> saved.printer, udp |-> udp]
        ELSE NotFound(Printer, udp)

\* lines 202-232: the probe goes to every broadcast address (a sendto that raises
\* OSError is logged), then one recvfrom; TimeoutError and OSError are logged
Exchange(broadcast_addresses, fails, reply, pr) ==
    LET udp == [NoUdp EXCEPT !.bind = "ok", !.probes = broadcast_addresses,
                             !.delivered = broadcast_addresses \ fails,
                             !.recv = reply.kind, !.datagram = reply]
        saved == _save_discovered_printer(reply)
    IN  IF reply.kind # "data" THEN NotFound(pr, udp)
        ELSE IF saved.exc # "none"
        THEN [ret |-> "raise", exc |-> saved.exc, printer |-> pr, udp |-> udp]
        ELSE IF saved.found
        THEN [ret |-> "Printer", exc |-> "none", printer |-> saved.printer, udp |-> udp]
        ELSE NotFound(pr, udp)

\* discover_printer if the except clause of the bind only logged
discover_printer_unbound(enum, bind_ok, fails, reply, pr) ==
    LET broadcast_addresses == _get_broadcast_addresses(enum) IN
    IF broadcast_addresses = {} THEN NotFound(pr, NoUdp)
    ELSE LET r == Exchange(broadcast_addresses, fails, reply, pr) IN
         [r EXCEPT !.udp.bind = IF bind_ok THEN "ok" ELSE "failed"]

\* discover_printer: what it returns, the exception that leaves it, self.printer
\* as it leaves it, and what it did on the socket; fails are the addresses whose
\* sendto raises OSError
discover_printer(enum, bind_ok, fails, reply, pr) ==
    LET broadcast_addresses == _get_broadcast_addresses(enum) IN
    IF broadcast_addresses = {} THEN NotFound(pr, NoUdp)
    ELSE IF ~bind_ok THEN NotFound(pr, [NoUdp EXCEPT !.bind = "failed"])
    ELSE Exchange(broadcast_addresses, fails, reply, pr)

\* one call of discover_printer, made while no coroutine runs synchronously
DiscoverCall(enum, bind_ok, fails, reply) ==
    LET r == discover_printer(enum, bind_ok, fails, reply, printer) IN
    /\ pc \in {"idle", "sleep"}
    /\ printer' = r.printer
    /\ last' = [NoOp EXCEPT !.op = "discover", !.what = r.ret, !.exc = r.exc,
                            !.udp = [r.udp EXCEPT !.interfaces = Interfaces(enum)]]
    /\ UNCHANGED <<printer_websocket, printer_data, apps, loop, pc, connect_ret, arrived, task_pc, camera_vars>>

DiscoverPrinter ==
    \E enum \in Enumerations, bind_ok \in BOOLEAN, fails \in SUBSET BroadcastAddrs,
       reply \in Replies :
        DiscoverCall(enum, bind_ok, fails, reply)

(***************************************************************************)
(* ElegooMjpegCamera.stream_source.  Its inputs are the video object that  *)
(* get_printer_video returns and the proxy option of the config entry.     *)
(***************************************************************************)
ProxyUrl == "http://127.0.0.1:3031/video"

\* video.status: None, or a member of ElegooVideoStatus
VideoStatuses ==
    {"None", "SUCCESS", "EXCEEDED_MAX_STREAMING_LIMIT", "CAMERA_DOES_NOT_EXIST",
     "UNKNOWN_ERROR"}

\* video.video_url
VideoUrls ==
    {"", "http://192.0.2.50:3031/video", "http://192.0.2.99:3031/video",
     "http://198.51.100.7:3031/video"}

Videos ==
    [status : VideoStatuses, video_url : VideoUrls, proxy_enabled : BOOLEAN]

\* bool(video.status): None is false, a member of the enumeration is true
Truthy(status) == status # "None"

\* stream_source if it kept no URL over a call that did not find SUCCESS
stream_source_forgets(video, url) ==
    IF Truthy(video.status) /\ video.status = "SUCCESS"
    THEN IF video.proxy_enabled THEN ProxyUrl ELSE video.video_url
    ELSE ""

\* stream_source, lines 79-86: the value it assigns to self._mjpeg_url (or
\* leaves there) and returns; url is self._mjpeg_url at the call
stream_source(video, url) ==
    IF Truthy(video.status) /\ video.status = "SUCCESS"
    THEN IF video.proxy_enabled THEN ProxyUrl ELSE video.video_url
    ELSE url

\* one call of stream_source
StreamSourceCall(video) ==
    /\ _mjpeg_url' = stream_source(video, _mjpeg_url)
    /\ last_success_url' =
            IF video.status = "SUCCESS" THEN _mjpeg_url' ELSE last_success_url
    /\ last' = [NoOp EXCEPT !.op = "stream_source", !.what = _mjpeg_url', !.video = video]
    /\ UNCHANGED <<printer_websocket, printer, printer_data, apps, loop, pc, connect_ret,
                   arrived, task_pc>>

StreamSource == \E video \in Videos : StreamSourceCall(video)

\* what the network does during the discoveries of the session specification:
\* one subnet, the bind and the sendto go well, and the reply is none in time or
\* the identity of one of two printers
SessionReplies ==
    {NoDatagram("timeout")}
    \cup {[NoDatagram("data") EXCEPT !.sender = "192.0.2.50", !.identity = TRUE, !.Id = c,
                                     !.MainboardID = 3 - c, !.MainboardIP = "192.0.2.50",
                                     !.Name = "P1"] : c \in {1, 2}}

SessionDiscover ==
    \E reply \in SessionReplies :
        DiscoverCall([raises |-> FALSE, addrs |-> {"192.0.2.255"}], TRUE, {}, reply)

(***************************************************************************)
(* Specifications.                                                         *)
(***************************************************************************)
LoopStep ==
    \E i \in 1..MaxConnects :
        \/ SockConnected(i)
        \/ OnError(i)
        \/ OnClose(i)
        \/ \E f \in SessionFrames : ws_msg_handler(i, f)

Next ==
    \/ ConnectStart
    \/ ConnectObserved
    \/ ConnectTrue
    \/ ConnectTimeout
    \/ LoopStep
    \/ SendCommand
    \/ SessionDiscover

\* the client with its session: connect_printer, the background loops, the commands
Spec == Init /\ [][Next]_vars

TaskNext ==
    \/ ConnectStart
    \/ ConnectObserved
    \/ ConnectTrue
    \/ ConnectTimeout
    \/ LoopStep
    \/ TaskStart
    \/ TaskResume

\* the client with its session and get_printer_current_task
TaskSpec == Init /\ [][TaskNext]_vars

ConnectNext ==
    \/ ConnectStart
    \/ ConnectObserved
    \/ ConnectTrue
    \/ ConnectTimeout
    \/ LoopStep

\* connect_printer and the background loops, with the progress the code is sure
\* of: the clock reaches the deadline of the poll loop (lines 300-301), and the
\* event loop ends the asyncio.sleep(2) (line 303).  Nothing is assumed of the
\* run_forever threads: a socket may never connect and a thread may never end.
ConnectSpec ==
    Init /\ [][ConnectNext]_vars /\ WF_vars(ConnectTimeout) /\ WF_vars(ConnectTrue)

\* the camera entity under every sequence of stream_source calls
CameraSpec == Init /\ [][StreamSource]_vars

RouterNext == \E f \in Frames : ParseResponseCall(f)

\* the message router fed every frame of Frames
RouterSpec == Init /\ [][RouterNext]_vars

\* discover_printer under everything the network may do
DiscoverSpec == Init /\ [][DiscoverPrinter]_vars

(***************************************************************************)
(* Properties.                                                             *)
(***************************************************************************)
NotConnected == "ElegooPrinterClientWebsocketConnectionError"

CallbackFires == \E i \in 1..MaxConnects : OnError(i) \/ OnClose(i)

\* C1: a command sent while self.printer_websocket is None raises the
\* not-connected error and hands nothing to any socket, and a payload reaches a
\* socket only in the step of a command that found the handle present: nothing
\* of a rejected command is sent by a later step, a connect included.
C1_SendWithoutHandleRaises ==
    [][/\ (SendCommand /\ printer_websocket = None =>
            last'.exc = NotConnected /\ last'.via = None /\ last'.env = NoEnvelope)
       /\ (last'.via # None /\ last' # last => SendCommand /\ printer_websocket # None)
      ]_vars

\* C1 witness: a command was rejected on a client that never connected
C1_Witness ==
    /\ apps = 0
    /\ last.op = "send"
    /\ last.exc = NotConnected

\* C2: the error and close callbacks clear the handle; once it is None only the
\* start of a connect_printer call stores a handle again (a socket that
\* reconnects does not), and until then every command raises not-connected.
C2_ClearedUntilConnect ==
    [][/\ (CallbackFires => printer_websocket' = None)
       /\ (printer_websocket = None /\ printer_websocket' # None => ConnectStart)
       /\ ((\E i \in 1..MaxConnects : SockConnected(i)) =>
                printer_websocket' = printer_websocket)
       /\ (printer_websocket = None /\ SendCommand => last'.exc = NotConnected)
      ]_vars

\* C2 witness: connect_printer returned True, a callback cleared the handle, the
\* loop reconnected, and a command still raised not-connected
C2_Witness ==
    /\ connect_ret = "True"
    /\ printer_websocket = None
    /\ \E i \in 1..MaxConnects : loop[i] = "connected"
    /\ last.op = "send"
    /\ last.exc = NotConnected

\* C3 (as claimed): a frame that is valid JSON never makes _parse_response raise.
C3_ValidJsonNeverRaises ==
    last.op = "recv" /\ last.what # "notjson" => last.exc = "none"

C5_StatusAndAttributesReplace ==
    [][/\ \A f \in StatusFrames :
            f.body.st = "object" /\ ParseResponseCall(f) =>
                /\ printer_data'.status = PrinterStatus_from_json(f.body).value
                /\ printer_data'.attributes = printer_data.attributes
                /\ printer_data'.print_history = printer_data.print_history
       /\ \A f \in AttributesFrames :
            f.body.at = "object" /\ ParseResponseCall(f) =>
                /\ printer_data'.attributes = PrinterAttributes_from_json(f.body).value
                /\ printer_data'.status = printer_data.status
                /\ printer_data'.print_history = printer_data.print_history
      ]_vars

\* C5 witness: a status envelope was applied over attributes and a history that
\* earlier envelopes had set
C5_Witness ==
    /\ last.op = "recv"
    /\ last.what = "status"
    /\ last.exc = "none"
    /\ printer_data.status.print_info.task_id = 1
    /\ printer_data.attributes # PrinterData.attributes
    /\ printer_data.print_history # <<>>

\* the response envelopes that carry a history-detail list of well-formed entries
HistoryFrames ==
    {f \in ResponseFrames :
        /\ f.body.ht = "list"
        /\ \A k \in 1..Len(f.body.HistoryDetailList) :
                f.body.HistoryDetailList[k].et = "object"}

\* C6 (as claimed): after a response envelope with a history-detail list of
\* length N, N = 0 included, print history is that list: N entries, same order.
C6_HistoryIsTheList ==
    [][\A f \in HistoryFrames :
        ParseResponseCall(f) =>
            /\ Len(printer_data'.print_history) = Len(f.body.HistoryDetailList)
            /\ \A k \in 1..Len(f.body.HistoryDetailList) :
                    printer_data'.print_history[k].task_id = f.body.HistoryDetailList[k].TaskId
      ]_vars

\* C7 (as claimed): every field of Device State is what the most recently
\* arrived envelope of its category carried.
C7_FieldsReflectLatest ==
    /\ printer_data.status = arrived.status
    /\ printer_data.attributes = arrived.attributes
    /\ printer_data.print_history = arrived.print_history

\* the frames of category notice, error or unknown, those without a topic, and
\* the response envelopes that carry no history-detail list
NoMutationFrames ==
    {TopicFrame(<<"sdcp", "/", c, "/", "id">>) : c \in {"notice", "error", "other"}}
    \cup {TopicFrame(<<"sdcp", "/">>), TopicFrame(<<>>), [TopicFrame(<<>>) EXCEPT !.tt = "absent"]}
    \cup {f \in ResponseFrames : f.body.ht # "list"}

C9_OneActiveConnection ==
    Cardinality({i \in 1..MaxConnects : loop[i] \in Alive}) <= 1

\* C10: when connect_printer has returned False the handle is None, and stays
\* None until connect_printer is called again, so every command sent after the
\* return raises not-connected.
C10_TimeoutClearsHandle ==
    connect_ret = "False" =>
        /\ printer_websocket = None
        /\ (last.op = "send" => last.exc = NotConnected)

\* C10 witness: connect_printer timed out, the socket connected afterwards, and
\* a command raised not-connected
C10_Witness ==
    /\ connect_ret = "False"
    /\ loop[apps] = "connected"
    /\ last.op = "send"
    /\ last.exc = NotConnected

\* a facade command whose printer_websocket.send meets the given fault
SendWith(fault) ==
    /\ Possible(fault)
    /\ \/ Command("get_printer_status", get_printer_status(printer_websocket, fault))
       \/ Command("get_printer_attributes", get_printer_attributes(printer_websocket, fault))
       \/ \E toggle \in BOOLEAN :
            Command("set_printer_video_stream",
                    set_printer_video_stream(toggle, printer_websocket, fault))
       \/ Command("get_printer_historical_tasks",
                  get_printer_historical_tasks(printer_websocket, fault))
       \/ \E id_list \in IdLists :
            Command("get_printer_task_detail",
                    get_printer_task_detail(id_list, printer_websocket, fault))

\* C11: with a handle present, a send that fails reaches the caller: a websocket
\* exception as ElegooPrinterClientWebsocketError, an OSError as OSError itself;
\* in both cases the command did call send on the handle.
C11_SendFaultReachesCaller ==
    [][/\ (printer_websocket # None /\ SendWith("websocket") =>
            last'.exc = "ElegooPrinterClientWebsocketError" /\ last'.via = printer_websocket)
       /\ (printer_websocket # None /\ SendWith("os") =>
            last'.exc = "OSError" /\ last'.via = printer_websocket)
      ]_vars

\* C11 witness: get_printer_status, whose except clause logs and re-raises, let an
\* OSError of the send through
C11_Witness ==
    /\ last.op = "send"
    /\ last.what = "get_printer_status"
    /\ last.exc = "OSError"
    /\ last.via # None

\* the datagrams that decode into a Printer
ValidReplies == {d \in Replies : d.kind = "data" /\ d.utf8 /\ d.identity}

\* the last operation was a discover_printer that received datagram d
Received(d) == last.op = "discover" /\ last.udp.recv = "data" /\ last.udp.datagram = d

\* C12 (as claimed): when discover_printer receives a valid reply it returns a
\* Printer whose address is the address of the UDP sender of that reply.
C12_AddressIsSender ==
    \A d \in ValidReplies :
        Received(d) => last.what = "Printer" /\ printer.ip_address = d.sender

\* C13 (as claimed): when the interface enumeration raises or yields no
\* broadcast address and the bind succeeds, the probe goes to 255.255.255.255
\* and a reply is waited for.
C13_FallbackToLimitedBroadcast ==
    last.op = "discover" /\ last.udp.interfaces \in {"raised", "empty"}
                         /\ last.udp.bind # "failed" =>
        LimitedBroadcast \in last.udp.probes /\ last.udp.recv # "none"

\* C14: when recvfrom times out, discover_printer returns None, raises nothing
\* and leaves self.printer as it was.
C14_TimeoutIsNotFound ==
    [][last'.op = "discover" /\ last'.udp.recv = "timeout" =>
            last'.what = "None" /\ last'.exc = "none" /\ printer' = printer]_vars

\* C14 witness: a discovery timed out on a client that had discovered a printer
C14_Witness ==
    /\ last.op = "discover"
    /\ last.udp.recv = "timeout"
    /\ last.what = "None"
    /\ printer # Printer

\* C15: a first reply that is not UTF-8, or whose text is no identity payload,
\* makes discover_printer return None without raising and leaves self.printer as
\* it was; self.printer changes only in a call that received a reply that
\* decodes into a Printer, and then it becomes that Printer, every field.
C15_UndecodableIsNotFound ==
    [][/\ (last'.op = "discover" /\ last'.udp.recv = "data"
                                  /\ last'.udp.datagram \notin ValidReplies =>
            last'.what = "None" /\ last'.exc = "none" /\ printer' = printer)
       /\ (printer' # printer =>
            /\ last'.op = "discover"
            /\ last'.what = "Printer"
            /\ last'.udp.datagram \in ValidReplies
            /\ printer' = [id |-> last'.udp.datagram.MainboardID,
                           connection |-> last'.udp.datagram.Id,
                           ip_address |-> last'.udp.datagram.MainboardIP,
                           name |-> last'.udp.datagram.Name])
      ]_vars

\* C15 witness: a reply that did not decode was received by a client that had
\* discovered a printer
C15_Witness ==
    /\ last.op = "discover"
    /\ last.udp.recv = "data"
    /\ last.udp.datagram \notin ValidReplies
    /\ last.what = "None"
    /\ printer # Printer

\* C16: when the bind fails, discover_printer returns None, calls neither sendto
\* nor recvfrom and leaves self.printer as it was; a probe is sent and a reply
\* waited for only with the socket bound.
C16_NoProbeWithoutBind ==
    [][last'.op = "discover" =>
        /\ (last'.udp.bind = "failed" =>
                /\ last'.what = "None"
                /\ last'.exc = "none"
                /\ last'.udp.probes = {}
                /\ last'.udp.recv = "none"
                /\ printer' = printer)
        /\ (last'.udp.probes # {} \/ last'.udp.recv # "none" => last'.udp.bind = "ok")
      ]_vars

\* C16 witness: the bind failed on a client that had discovered a printer
C16_Witness ==
    /\ last.op = "discover"
    /\ last.udp.bind = "failed"
    /\ last.what = "None"
    /\ printer # Printer

\* the envelope of command code cmd with payload data under the current identity
Envelope(cmd, data) ==
    [Id |-> printer.connection, Cmd |-> cmd, Data |-> data, MainboardID |-> printer.id,
     From |-> 0, Topic |-> <<"sdcp", "/", "request", "/", printer.id>>]

\* a call of facade method name with a handle present hands the envelope of
\* cmd and data, and nothing else, to that handle
Emits(name, r, cmd, data) ==
    Command(name, r) /\ printer_websocket # None =>
        last'.via = printer_websocket /\ last'.env = Envelope(cmd, data)

\* C17: each facade command hands to the socket one envelope with the command
\* code and payload of the protocol table (0, 1 and 320 with an empty payload,
\* 386 with Enable 0 or 1 as the argument says, 321 with the id list), with
\* MainboardID and the topic sdcp/request/<id> from self.printer, Id the
\* connection token of self.printer, and From 0.
C17_EnvelopeOfTheTable ==
    [][\A fault \in Faults :
        /\ Emits("get_printer_status", get_printer_status(printer_websocket, fault),
                 0, [dt |-> "empty", Enable |-> 0, Id |-> <<>>])
        /\ Emits("get_printer_attributes", get_printer_attributes(printer_websocket, fault),
                 1, [dt |-> "empty", Enable |-> 0, Id |-> <<>>])
        /\ Emits("get_printer_historical_tasks",
                 get_printer_historical_tasks(printer_websocket, fault),
                 320, [dt |-> "empty", Enable |-> 0, Id |-> <<>>])
        /\ \A toggle \in BOOLEAN :
                Emits("set_printer_video_stream",
                      set_printer_video_stream(toggle, printer_websocket, fault),
                      386, [dt |-> "Enable", Enable |-> IF toggle THEN 1 ELSE 0, Id |-> <<>>])
        /\ \A id_list \in IdLists :
                Emits("get_printer_task_detail",
                      get_printer_task_detail(id_list, printer_websocket, fault),
                      321, [dt |-> "Id", Enable |-> 0, Id |-> id_list])
      ]_vars

\* C17 witness: the video stream was switched on at a discovered printer whose
\* device id differs from its connection token
C17_Witness ==
    /\ last.op = "send"
    /\ last.what = "set_printer_video_stream"
    /\ last.via # None
    /\ last.env.Cmd = 386
    /\ last.env.Data.Enable = 1
    /\ printer.id # printer.connection
    /\ last.env.MainboardID = printer.id

\* C18: printer_data changes only in a step of the message handler of a
\* receive loop; the facade commands, raising or not, discover_printer and the
\* steps of connect_printer leave it as it is.
C18_OnlyTheRouterWrites ==
    [][/\ (printer_data' # printer_data =>
            \E i \in 1..MaxConnects, f \in SessionFrames : ws_msg_handler(i, f))
       /\ (SendCommand \/ SessionDiscover \/ ConnectStart \/ ConnectObserved
                        \/ ConnectTrue \/ ConnectTimeout =>
            printer_data' = printer_data)
      ]_vars

\* C18 witness: a command raised on a client whose device state a frame had set
C18_Witness ==
    /\ last.op = "send"
    /\ last.exc # "none"
    /\ printer_data # PrinterData

\* the task id of the current status, 0 when there is none
CurrentTaskId == printer_data.status.print_info.task_id

\* the task-detail request for the current task id, under the current identity
DetailRequest == Envelope(321, [dt |-> "Id", Enable |-> 0, Id |-> <<CurrentTaskId>>])

\* C19 (as claimed): with a task id in the current status,
\* get_printer_current_task raises not-connected without suspending if there
\* is no handle, and otherwise sends one request 321 for that id, suspends and
\* returns the print history as it stands after the sleep; with no task id it
\* returns [], sends nothing and raises nothing.
C19_CurrentTaskAsClaimed ==
    [][/\ (TaskStart /\ CurrentTaskId # 0 /\ printer_websocket = None =>
            /\ last'.what = "raise" /\ last'.exc = NotConnected
            /\ last'.via = None /\ task_pc' = "idle")
       /\ (TaskStart /\ CurrentTaskId # 0 /\ printer_websocket # None =>
            /\ last'.via = printer_websocket /\ last'.env = DetailRequest
            /\ last'.exc = "none" /\ task_pc' = "sleep")
       /\ (TaskStart /\ CurrentTaskId = 0 =>
            /\ last'.what = "empty" /\ last'.ret = <<>> /\ last'.exc = "none"
            /\ last'.via = None /\ task_pc' = "idle")
       /\ (TaskResume => last'.what = "history" /\ last'.ret = printer_data.print_history
                                                /\ last'.exc = "none")
      ]_vars

\* C19 (amended): as claimed, except that with a task id and a handle present
\* the send may raise: then ElegooPrinterClientWebsocketError or OSError leaves
\* get_printer_current_task without a suspension; it suspends, and later returns
\* the print history as it stands then, only when the send went through.
C19_CurrentTask ==
    [][/\ (TaskStart /\ CurrentTaskId # 0 /\ printer_websocket = None =>
            /\ last'.what = "raise" /\ last'.exc = NotConnected
            /\ last'.via = None /\ task_pc' = "idle")
       /\ (TaskStart /\ CurrentTaskId # 0 /\ printer_websocket # None =>
            /\ last'.via = printer_websocket /\ last'.env = DetailRequest
            /\ \/ last'.exc = "none" /\ last'.what = "suspend" /\ task_pc' = "sleep"
               \/ /\ last'.exc \in {"ElegooPrinterClientWebsocketError", "OSError"}
                  /\ last'.what = "raise" /\ task_pc' = "idle")
       /\ (TaskStart /\ CurrentTaskId = 0 =>
            /\ last'.what = "empty" /\ last'.ret = <<>> /\ last'.exc = "none"
            /\ last'.via = None /\ task_pc' = "idle")
       /\ (TaskResume => last'.what = "history" /\ last'.ret = printer_data.print_history
                                                /\ last'.exc = "none")
       /\ (task_pc' = "sleep" /\ task_pc = "idle" => last'.exc = "none" /\ last'.via # None)
      ]_vars

\* C19 witness: get_printer_current_task returned, after its sleep, a history
\* that a response frame had filled
C19_Witness ==
    /\ last.op = "task"
    /\ last.what = "history"
    /\ Len(last.ret) > 0
    /\ task_pc = "idle"

\* C20 (as claimed): whenever connect_printer returns True the handle is
\* present at that moment, whatever on_close and on_error did during the sleep.
C20_TrueMeansHandle ==
    [][ConnectTrue => printer_websocket' # None]_vars

LoopOf(i) ==
    \/ SockConnected(i)
    \/ OnError(i)
    \/ OnClose(i)
    \/ \E f \in SessionFrames : ws_msg_handler(i, f)

\* C22 (as claimed): once connect_printer has returned False and until it is
\* called again, the thread that call started changes neither printer_data nor
\* self.printer_websocket.
C22_FailedLoopIsSilent ==
    [][pc = "idle" /\ connect_ret = "False" /\ LoopOf(apps) =>
            printer_data' = printer_data /\ printer_websocket' = printer_websocket]_vars

\* C23: over any sequence of calls, stream_source returns the proxy URL when
\* the video status is SUCCESS and the proxy option is on, the URL of the video
\* object when it is SUCCESS and the option is off, and otherwise the URL its
\* most recent call that found SUCCESS returned, "" when there was none.
C23_StreamSource ==
    [][last'.op = "stream_source" =>
        /\ (last'.video.status = "SUCCESS" /\ last'.video.proxy_enabled =>
                last'.what = "http://127.0.0.1:3031/video")
        /\ (last'.video.status = "SUCCESS" /\ ~last'.video.proxy_enabled =>
                last'.what = last'.video.video_url)
        /\ (last'.video.status # "SUCCESS" => last'.what = last_success_url)
      ]_vars

\* C23 witness: a call that did not find SUCCESS returned the printer's URL of
\* an earlier call that did
C23_Witness ==
    /\ last.op = "stream_source"
    /\ last.video.status = "CAMERA_DOES_NOT_EXIST"
    /\ last.what = "http://192.0.2.50:3031/video"
    /\ last.video.video_url # last.what

====
